---- MODULE Spec2Model ----
(***************************************************************************)
(* Model of the relay: the per-chain ChainMonitor (submission and the      *)
(* block-driven monitor loop), the fee policy bump_transaction, the        *)
(* DbTxRequestRepository, and the node each monitor talks to.              *)
(*                                                                         *)
(* Every await of the source is a point where other tasks may run, so      *)
(* send_monitored_transaction and one iteration of the monitor loop are    *)
(* split into steps at the awaits whose order against other tasks matters. *)
(***************************************************************************)
EXTENDS Integers, FiniteSets, Sequences, TLC

\* ------------------------------------------------------------------ bounds
MaxSubmits == 2     \* calls of send_monitored_transaction
MaxBlocks  == 3     \* blocks mined, over all chains
MaxFeeValue == 12   \* largest fee value the fee policy is applied to on its own

\* ------------------------------------------------------------- the chains
\* setup_monitor(signer, provider, chain, block_frequency): Chain::AnvilHardhat
\* runs with block_frequency 1 (as the tests set it up), Chain::Goerli with a
\* block_frequency above 1 (main.rs passes 3; 2 here), so that gated ticks exist.
Chains == {"AnvilHardhat", "Goerli"}
block_frequency(c) == IF c = "AnvilHardhat" THEN 1 ELSE 2

\* `chain as u32` and Chain::try_from(u32)
ChainAsU32(c) == IF c = "AnvilHardhat" THEN 31337 ELSE 5
ChainTryFrom(n) == CHOOSE c \in Chains : ChainAsU32(c) = n

\* Option<T>: None is the empty set, Some(v) is {v}.
None == {}
Some(v) == {v}
is_none(o) == o = {}
unwrap(o) == CHOOSE v \in o : TRUE
unwrap_or(o, d) == IF o = {} THEN d ELSE CHOOSE v \in o : TRUE

\* The fee estimates estimate_eip1559_fees may return: (max_fee, max_priority_fee).
Estimates == {<<60, 10>>, <<75, 20>>}

\* The intents a caller passes: the fee fields of Eip1559TransactionRequest
\* (tests pass neither, main.rs passes max_priority_fee_per_gas = 1 only).
Intents == { [max_fee_per_gas |-> None, max_priority_fee_per_gas |-> None],
             [max_fee_per_gas |-> None, max_priority_fee_per_gas |-> Some(1)],
             [max_fee_per_gas |-> Some(75), max_priority_fee_per_gas |-> Some(20)] }

\* ------------------------------------------------------------ transactions
\* The hash of a signed transaction is determined by its fields.
TxHashOf(tx) == <<tx.chain_id, tx.nonce, unwrap(tx.max_fee_per_gas),
                  unwrap(tx.max_priority_fee_per_gas)>>

\* format!("{:?}", hash): the full 0x-prefixed hex of the hash.
FormatDebug(h) == <<"0x", h>>
\* TxHash::from_str: parses the full hex back into the hash.
TxHashFromStr(s) == s[2]

\* ---------------------------------------------------------------- fee policy
\* Rule: both the tip and the max fee must be bumped by a minimum of 10%.
increase_by_minimum_NoRound(value) == value + ((value * 10) \div 100)
increase_by_minimum(value) == value + ((value * 10) \div 100) + 1

Max_Left(a, b) == a
Max(a, b) == IF a >= b THEN a ELSE b

bump_transaction_NextNonce(tx, estimate_max_fee, estimate_max_priority_fee) ==
    [tx EXCEPT !.nonce = @ + 1,
               !.max_fee_per_gas = Some(estimate_max_fee),
               !.max_priority_fee_per_gas = Some(estimate_max_priority_fee)]
bump_transaction(tx, estimate_max_fee, estimate_max_priority_fee) ==
    LET prev_max_priority_fee ==
            unwrap_or(tx.max_priority_fee_per_gas, estimate_max_priority_fee)
        prev_max_fee == unwrap_or(tx.max_fee_per_gas, estimate_max_fee)
        new_max_priority_fee ==
            Max(estimate_max_priority_fee, increase_by_minimum(prev_max_priority_fee))
        estimate_base_fee == estimate_max_fee - estimate_max_priority_fee
        prev_base_fee == prev_max_fee - prev_max_priority_fee
        new_base_fee == Max(estimate_base_fee, increase_by_minimum(prev_base_fee))
        new_max_fee == new_base_fee + new_max_priority_fee
    IN  [tx EXCEPT !.max_fee_per_gas = Some(new_max_fee),
                   !.max_priority_fee_per_gas = Some(new_max_priority_fee)]

\* ---------------------------------------------------------------- the state
VARIABLES
    store,          \* table `requests`: id -> row [hash, tx, mined, chain]
    mon,            \* chain -> the monitor task: its position and its locals
    sub,            \* call of send_monitored_transaction -> its position and locals
    node,           \* chain -> the node: mempool, blocks, the account's nonce
    nonce_manager,  \* chain -> the next nonce fill_transaction assigns
    last_sent,      \* chain -> (nonce -> the transaction send_transaction last accepted)
    updated,        \* the ids some update_many has written
    fee_in,         \* arguments of a call of the fee policy on its own
    fee_out,        \* its result
    call_in,        \* a call of the repository or of the facade on its own
    call_out        \* what it returned

vars == <<store, mon, sub, node, nonce_manager, last_sent, updated, fee_in, fee_out, call_in, call_out>>

Calls == 1..MaxSubmits
\* Uuid::new_v4(): a fresh id per call.
new_v4(t) == t

\* --------------------------------------------------------------- repository
\* impl From<RequestRecord> for Request
RequestFrom(id, record) ==
    [id |-> id, hash |-> TxHashFromStr(record.hash), chain |-> ChainTryFrom(record.chain),
     tx |-> record.tx, mined |-> record.mined]

Conflict_Never(st, id) == FALSE
\* `id` is the key of table `requests`: a row with this id exists.
Conflict(st, id) == id \in DOMAIN st

save_MinedLiteral(st, id, hash, tx, mined, chain) ==
    (id :> [hash |-> FormatDebug(hash), tx |-> tx, mined |-> TRUE,
            chain |-> ChainAsU32(chain)]) @@ st
\* INSERT INTO requests (id, hash, tx, mined, chain) VALUES (?, ?, ?, ?, ?)
\* The INSERT of an id the table holds is refused and the table stays as it is.
save(st, id, hash, tx, mined, chain) ==
    IF Conflict(st, id) THEN st
    ELSE (id :> [hash |-> FormatDebug(hash), tx |-> tx, mined |-> mined,
                 chain |-> ChainAsU32(chain)]) @@ st

get_First(st, id) ==
    IF DOMAIN st = {} THEN None
    ELSE Some(RequestFrom(CHOOSE i \in DOMAIN st : TRUE, st[CHOOSE i \in DOMAIN st : TRUE]))
\* SELECT ... WHERE id = ?
get(st, id) ==
    IF id \in DOMAIN st THEN Some(RequestFrom(id, st[id])) ELSE None

get_pending_AnyMined(st, chain) ==
    { RequestFrom(id, st[id]) :
        id \in { i \in DOMAIN st : st[i].chain = ChainAsU32(chain) } }
get_pending_AnyChain(st, chain) ==
    { RequestFrom(id, st[id]) : id \in { i \in DOMAIN st : st[i].mined = FALSE } }
\* SELECT ... WHERE mined = false and chain = ?
get_pending(st, chain) ==
    { RequestFrom(id, st[id]) :
        id \in { i \in DOMAIN st : st[i].mined = FALSE /\ st[i].chain = ChainAsU32(chain) } }

update_many_NoWhere(st, updates) ==
    IF updates = {} THEN st
    ELSE [id \in DOMAIN st |->
            LET u == CHOOSE u \in updates : TRUE
            IN  [st[id] EXCEPT !.hash = FormatDebug(u.hash), !.mined = u.mined]]
\* One store transaction: UPDATE requests SET hash = ?, mined = ? WHERE id = ?
\* for each update (ids are distinct within a batch), then commit.
update_many(st, updates) ==
    IF updates = {} THEN st
    ELSE [id \in DOMAIN st |->
            IF \E u \in updates : u.id = id
            THEN LET u == CHOOSE u \in updates : u.id = id
                 IN  [st[id] EXCEPT !.hash = FormatDebug(u.hash), !.mined = u.mined]
            ELSE st[id]]

update_many_statements_Always(updates) == Cardinality(updates) + 2
\* Lines 157-175: the statements update_many issues: none for an empty batch
\* (no store transaction is opened); otherwise begin, one UPDATE per update, commit.
update_many_statements(updates) ==
    IF updates = {} THEN 0 ELSE Cardinality(updates) + 2

update_many_failed_Autocommit(st, done) == update_many(st, done)
\* Lines 158-175: update_many returns an error after the UPDATEs of `done` ran
\* (begin, an UPDATE or the commit failed). The UPDATEs ran on the store
\* transaction `tx`, which is dropped uncommitted: it is rolled back.
update_many_failed(st, done) == st

\* status(id): delegates to get, returns (mined, hash) or absent.
get_transaction_status(st, id) ==
    IF is_none(get(st, id)) THEN None
    ELSE Some([mined |-> unwrap(get(st, id)).mined, hash |-> unwrap(get(st, id)).hash])

\* --------------------------------------------------------------------- Init
\* monitor() before its first block: block_count = 0, the watcher at the first block.
IdleMonitor ==
    [pc |-> "idle", block_count |-> 0, next |-> 1, estimate |-> <<0, 0>>,
     requests |-> {}, updates |-> {}]
\* monitor() returned an error: the spawned task unwraps it and ends (line 57).
DeadMonitor == [IdleMonitor EXCEPT !.pc = "dead"]

NewCall == [pc |-> "init", chain |-> "AnvilHardhat", tx |-> None, hash |-> None, id |-> None]

EmptyFn == [x \in {} |-> x]

Init ==
    /\ store = EmptyFn
    /\ mon = [c \in Chains |-> IdleMonitor]
    /\ sub = [t \in Calls |-> NewCall]
    /\ node = [c \in Chains |-> [mempool |-> {}, blocks |-> <<>>, nonce |-> 0]]
    /\ nonce_manager = [c \in Chains |-> 0]
    /\ last_sent = [c \in Chains |-> EmptyFn]
    /\ updated = {}
    /\ fee_in = <<>>
    /\ fee_out = <<>>
    /\ call_in = <<>>
    /\ call_out = <<>>

\* ------------------------------------------------- the node (environment)
\* send_transaction: "nonce too low" when the account's nonce has passed the
\* transaction's; otherwise the node takes it into its mempool.
NonceTooLow_Never(c, tx) == FALSE
NonceTooLow(c, tx) == tx.nonce < node[c].nonce

\* A block takes, for consecutive nonces from the account's nonce on, one of the
\* broadcast transactions with that nonce; the other transactions with a used
\* nonce leave the mempool.
Includable(c, S) ==
    /\ \A a, b \in S : a.nonce = b.nonce => a = b
    /\ { tx.nonce : tx \in S } = { n \in 0..(MaxSubmits + 1) :
                                     /\ n >= node[c].nonce
                                     /\ n < node[c].nonce + Cardinality(S) }

RECURSIVE SumLen(_)
SumLen(cs) ==
    IF cs = {} THEN 0
    ELSE LET c == CHOOSE c \in cs : TRUE IN Len(node[c].blocks) + SumLen(cs \ {c})
BlocksMined == SumLen(Chains)

MineBlock(c) ==
    /\ BlocksMined < MaxBlocks
    /\ \E S \in SUBSET node[c].mempool :
         /\ Includable(c, S)
         /\ node' = [node EXCEPT ![c] =
                [mempool |-> { tx \in node[c].mempool \ S :
                                 tx.nonce >= node[c].nonce + Cardinality(S) },
                 blocks |-> Append(node[c].blocks, { TxHashOf(tx) : tx \in S }),
                 nonce |-> node[c].nonce + Cardinality(S)]]
    /\ UNCHANGED <<store, mon, sub, nonce_manager, last_sent, updated, fee_in, fee_out, call_in, call_out>>

\* anvil_dropTransaction: the transaction leaves the mempool.
DropTransaction(c) ==
    /\ \E tx \in node[c].mempool :
         node' = [node EXCEPT ![c].mempool = node[c].mempool \ {tx}]
    /\ UNCHANGED <<store, mon, sub, nonce_manager, last_sent, updated, fee_in, fee_out, call_in, call_out>>

\* ------------------------------------------- send_monitored_transaction
Others == <<store, mon, updated, fee_in, fee_out, call_in, call_out>>

\* Line 69: estimate_eip1559_fees is only called inside this test.
estimate_needed(intent) ==
    is_none(intent.max_fee_per_gas) \/ is_none(intent.max_priority_fee_per_gas)

with_gas_FillMissing(intent, estimate) ==
    [max_fee_per_gas |-> Some(unwrap_or(intent.max_fee_per_gas, estimate[1])),
     max_priority_fee_per_gas |-> Some(unwrap_or(intent.max_priority_fee_per_gas, estimate[2]))]
\* with_gas: both fees come from the estimate when either is absent.
with_gas(intent, estimate) ==
    IF estimate_needed(intent)
    THEN [max_fee_per_gas |-> Some(estimate[1]),
          max_priority_fee_per_gas |-> Some(estimate[2])]
    ELSE intent

\* fill_transaction: the nonce manager's next nonce and the chain id.
filled(c, fees) ==
    [nonce |-> nonce_manager[c], chain_id |-> ChainAsU32(c),
     max_fee_per_gas |-> fees.max_fee_per_gas,
     max_priority_fee_per_gas |-> fees.max_priority_fee_per_gas]

CanStart(t) == sub[t].pc = "init" /\ (IF t = 1 THEN TRUE ELSE sub[t - 1].pc # "init")
FailedCall_WithId(c) == [NewCall EXCEPT !.pc = "failed", !.chain = c, !.id = Some(0)]
FailedCall(c) == [NewCall EXCEPT !.pc = "failed", !.chain = c]

\* Lines 68-79: estimate, fill and broadcast succeed.
SubmitSend(t) ==
    /\ CanStart(t)
    /\ \E c \in Chains, intent \in Intents, e \in Estimates :
         LET tx == filled(c, with_gas(intent, e))
         IN  /\ nonce_manager' = [nonce_manager EXCEPT ![c] = @ + 1]
             /\ node' = [node EXCEPT ![c].mempool = @ \cup {tx}]
             /\ last_sent' = [last_sent EXCEPT ![c] = (tx.nonce :> tx) @@ @]
             /\ sub' = [sub EXCEPT ![t] = [pc |-> "sent", chain |-> c, tx |-> Some(tx),
                                           hash |-> Some(TxHashOf(tx)), id |-> None]]
    /\ UNCHANGED Others

\* Lines 71 and 76: estimate_eip1559_fees or fill_transaction fails.
SubmitFillFails(t) ==
    /\ CanStart(t)
    /\ \E c \in Chains : sub' = [sub EXCEPT ![t] = FailedCall(c)]
    /\ UNCHANGED <<node, nonce_manager, last_sent>>
    /\ UNCHANGED Others

SubmitSendFails_Saves(t) ==
    /\ CanStart(t)
    /\ \E c \in Chains, intent \in Intents, e \in Estimates :
         LET tx == filled(c, with_gas(intent, e))
         IN  /\ sub' = [sub EXCEPT ![t] = FailedCall(c)]
             /\ nonce_manager' = [nonce_manager EXCEPT ![c] = @ + 1]
             /\ store' = save(store, new_v4(t), TxHashOf(tx), tx, FALSE, c)
    /\ UNCHANGED <<node, last_sent>>
    /\ UNCHANGED <<mon, updated, fee_in, fee_out, call_in, call_out>>

\* Line 79: send_transaction fails after fill_transaction took a nonce.
SubmitSendFails(t) ==
    /\ CanStart(t)
    /\ \E c \in Chains :
         /\ sub' = [sub EXCEPT ![t] = FailedCall(c)]
         /\ nonce_manager' = [nonce_manager EXCEPT ![c] = @ + 1]
    /\ UNCHANGED <<node, last_sent>>
    /\ UNCHANGED Others

\* Lines 80-86: a fresh id, save, return the id.
SubmitSave(t) ==
    /\ sub[t].pc = "sent"
    /\ ~Conflict(store, new_v4(t))
    /\ store' = save(store, new_v4(t), unwrap(sub[t].hash), unwrap(sub[t].tx), FALSE,
                     sub[t].chain)
    /\ sub' = [sub EXCEPT ![t].pc = "done", ![t].id = Some(new_v4(t))]
    /\ UNCHANGED <<mon, node, nonce_manager, last_sent, updated, fee_in, fee_out, call_in, call_out>>

\* Lines 82-84: save fails; the call returns the error and no id.
SubmitSaveFails(t) ==
    /\ sub[t].pc = "sent"
    /\ sub' = [sub EXCEPT ![t] = FailedCall(sub[t].chain)]
    /\ UNCHANGED <<store, mon, node, nonce_manager, last_sent, updated, fee_in, fee_out, call_in, call_out>>

\* ----------------------------------------------------------------- monitor
MonOthers == <<sub, nonce_manager, fee_in, fee_out, call_in, call_out>>

RequestUpdate(id, mined, hash) == [id |-> id, mined |-> mined, hash |-> hash]

tx_has_been_included_Never(block, hash) == FALSE
\* Line 115: block.transactions.iter().any(|tx| tx.hash == hash)
tx_has_been_included(block, hash) == hash \in block

Gated_Never(c, block_count) == FALSE
Gated_Inverted(c, block_count) == block_count % block_frequency(c) = 0
\* Line 127: block_count % self.block_frequency != 0
Gated(c, block_count) == block_count % block_frequency(c) # 0

\* block_count (line 93) is only used in block_count % self.block_frequency,
\* with block_frequency: u8 (line 26), so it is a u8.
U8Max == 255
\* Line 101, block_count += 1 on a u8: the sum while it fits. Past U8Max the
\* build decides: with overflow checks the addition panics (None), without
\* them it wraps to 0.
block_count_add_one(n) == IF n < U8Max THEN {Some(n + 1)} ELSE {Some(0), None}

TickBegin_Overlapping(c) ==
    /\ mon[c].pc \in {"idle", "loop"}
    /\ mon[c].next <= Len(node[c].blocks)
    /\ \E e \in Estimates :
         LET block == node[c].blocks[mon[c].next]
             block_count == mon[c].block_count + 1
             requests == get_pending(store, c)
             included == { r \in requests : tx_has_been_included(block, r.hash) }
             rest == IF Gated(c, block_count) THEN {} ELSE requests \ included
             updates == { RequestUpdate(r.id, TRUE, r.hash) : r \in included }
         IN  /\ mon' = [mon EXCEPT ![c] =
                       [pc |-> IF rest = {} /\ update_many_statements(updates) = 0
                               THEN "idle" ELSE "loop",
                        block_count |-> block_count,
                        next |-> mon[c].next + 1,
                        estimate |-> IF rest = {} THEN <<0, 0>> ELSE e,
                        requests |-> rest,
                        updates |-> updates]]
             /\ store' = IF rest = {} /\ update_many_statements(updates) = 0
                         THEN update_many(store, updates)
                         ELSE store
    /\ UNCHANGED <<node, last_sent, updated>>
    /\ UNCHANGED MonOthers

TickBegin_GateFirst(c) ==
    /\ mon[c].pc = "idle"
    /\ mon[c].next <= Len(node[c].blocks)
    /\ \E e \in Estimates :
         LET block == node[c].blocks[mon[c].next]
             block_count == mon[c].block_count + 1
             requests == IF Gated(c, block_count) THEN {} ELSE get_pending(store, c)
             included == { r \in requests : tx_has_been_included(block, r.hash) }
             rest == requests \ included
             updates == { RequestUpdate(r.id, TRUE, r.hash) : r \in included }
         IN  /\ mon' = [mon EXCEPT ![c] =
                       [pc |-> IF rest = {} /\ update_many_statements(updates) = 0
                               THEN "idle" ELSE "loop",
                        block_count |-> block_count,
                        next |-> mon[c].next + 1,
                        estimate |-> IF rest = {} THEN <<0, 0>> ELSE e,
                        requests |-> rest,
                        updates |-> updates]]
             /\ store' = IF rest = {} /\ update_many_statements(updates) = 0
                         THEN update_many(store, updates)
                         ELSE store
    /\ UNCHANGED <<node, last_sent, updated>>
    /\ UNCHANGED MonOthers

\* Lines 95-133 (and 163). The watcher yields the next block hash, block_count
\* is incremented, the block, the fee estimate and the pending requests of this
\* chain are read. The loop then runs without an await over the requests that
\* are in the block (pushed as mined) and, on a gated block, over the others
\* (skipped); it first awaits at a send_transaction, so `requests` keeps the
\* ones that are to be re-broadcast. With nothing to re-broadcast and nothing
\* pushed, update_many of the empty batch returns at once and the tick is over.
TickBegin(c) ==
    /\ mon[c].pc = "idle"
    /\ mon[c].next <= Len(node[c].blocks)
    /\ \E e \in Estimates, counted \in block_count_add_one(mon[c].block_count) :
         LET block == node[c].blocks[mon[c].next]
             block_count == unwrap_or(counted, 0)
             requests == get_pending(store, c)
             included == { r \in requests : tx_has_been_included(block, r.hash) }
             rest == IF Gated(c, block_count) THEN {} ELSE requests \ included
             updates == { RequestUpdate(r.id, TRUE, r.hash) : r \in included }
         IN  IF is_none(counted)
             THEN mon' = [mon EXCEPT ![c] = DeadMonitor] /\ store' = store
             ELSE
             /\ mon' = [mon EXCEPT ![c] =
                       [pc |-> IF rest = {} /\ update_many_statements(updates) = 0
                               THEN "idle" ELSE "loop",
                        block_count |-> block_count,
                        next |-> mon[c].next + 1,
                        estimate |-> IF rest = {} THEN <<0, 0>> ELSE e,
                        requests |-> rest,
                        updates |-> updates]]
             /\ store' = IF rest = {} /\ update_many_statements(updates) = 0
                         THEN update_many(store, updates)
                         ELSE store
    /\ UNCHANGED <<node, last_sent, updated>>
    /\ UNCHANGED MonOthers

\* Lines 103-108: get_block_with_txs, estimate_eip1559_fees or get_pending fails.
TickBeginFails(c) ==
    /\ mon[c].pc = "idle"
    /\ mon[c].next <= Len(node[c].blocks)
    /\ mon' = [mon EXCEPT ![c] = DeadMonitor]
    /\ UNCHANGED <<store, node, last_sent, updated>>
    /\ UNCHANGED MonOthers

Step(c, request, pushed) ==
    mon' = [mon EXCEPT ![c].requests = @ \ {request}, ![c].updates = @ \cup pushed,
                       ![c].estimate = IF mon[c].requests = {request} THEN <<0, 0>> ELSE @]

\* Lines 113 and 175: the request's stored tx, bumped against the tick's estimate.
replacement_tx(c, request) ==
    bump_transaction(request.tx, mon[c].estimate[1], mon[c].estimate[2])

\* Lines 135-152 and 175-181: the bumped replacement is accepted by the node.
TickReplaced(c) ==
    /\ mon[c].pc = "loop"
    /\ \E request \in mon[c].requests :
         LET tx == replacement_tx(c, request)
         IN  /\ ~NonceTooLow(c, tx)
             /\ node' = [node EXCEPT ![c].mempool = @ \cup {tx}]
             /\ last_sent' = [last_sent EXCEPT ![c] = (tx.nonce :> tx) @@ @]
             /\ Step(c, request, {RequestUpdate(request.id, FALSE, TxHashOf(tx))})
    /\ UNCHANGED <<store, updated>>
    /\ UNCHANGED MonOthers

already_included_update_NotMined(request) ==
    RequestUpdate(request.id, FALSE, request.hash)
\* Lines 153-159: rebroadcast returned None ("transaction has already been
\* included"): the request is pushed as mined with the hash it was read with.
already_included_update(request) == RequestUpdate(request.id, TRUE, request.hash)

\* Lines 153-159 and 183-187: the node answers "nonce too low".
TickNonceTooLow(c) ==
    /\ mon[c].pc = "loop"
    /\ \E request \in mon[c].requests :
         /\ NonceTooLow(c, replacement_tx(c, request))
         /\ Step(c, request, {already_included_update(request)})
    /\ UNCHANGED <<store, node, last_sent, updated>>
    /\ UNCHANGED MonOthers

TickRebroadcastFails_Flushes(c) ==
    /\ mon[c].pc = "loop"
    /\ mon[c].requests # {}
    /\ store' = update_many(store, mon[c].updates)
    /\ mon' = [mon EXCEPT ![c] = DeadMonitor]
    /\ UNCHANGED <<node, last_sent, updated>>
    /\ UNCHANGED MonOthers

\* Lines 142 and 189: any other error of send_transaction ends monitor().
TickRebroadcastFails(c) ==
    /\ mon[c].pc = "loop"
    /\ mon[c].requests # {}
    /\ mon' = [mon EXCEPT ![c] = DeadMonitor]
    /\ UNCHANGED <<store, node, last_sent, updated>>
    /\ UNCHANGED MonOthers

\* Line 163: the batch is written; the loop waits for the next block.
TickUpdate(c) ==
    /\ mon[c].pc = "loop"
    /\ mon[c].requests = {}
    /\ store' = update_many(store, mon[c].updates)
    /\ updated' = updated \cup { u.id : u \in mon[c].updates }
    /\ mon' = [mon EXCEPT ![c] = [@ EXCEPT !.pc = "idle", !.updates = {}]]
    /\ UNCHANGED <<node, last_sent>>
    /\ UNCHANGED MonOthers

\* Line 163: update_many fails after some of its statements; monitor() returns the error.
TickUpdateFails(c) ==
    /\ mon[c].pc = "loop"
    /\ mon[c].requests = {}
    /\ update_many_statements(mon[c].updates) > 0
    /\ \E done \in SUBSET mon[c].updates : store' = update_many_failed(store, done)
    /\ mon' = [mon EXCEPT ![c] = DeadMonitor]
    /\ UNCHANGED <<node, last_sent, updated>>
    /\ UNCHANGED MonOthers

\* -------------------------------------------------------------------- Spec
Next ==
    \/ \E t \in Calls : SubmitSend(t)
    \/ \E t \in Calls : SubmitFillFails(t)
    \/ \E t \in Calls : SubmitSendFails(t)
    \/ \E t \in Calls : SubmitSave(t)
    \/ \E t \in Calls : SubmitSaveFails(t)
    \/ \E c \in Chains : MineBlock(c)
    \/ \E c \in Chains : DropTransaction(c)
    \/ \E c \in Chains : TickBegin(c)
    \/ \E c \in Chains : TickBeginFails(c)
    \/ \E c \in Chains : TickReplaced(c)
    \/ \E c \in Chains : TickNonceTooLow(c)
    \/ \E c \in Chains : TickRebroadcastFails(c)
    \/ \E c \in Chains : TickUpdate(c)
    \/ \E c \in Chains : TickUpdateFails(c)

Spec == Init /\ [][Next]_vars

\* The monitor task is scheduled by the runtime: an await whose call succeeds
\* completes. A failing call ends the task instead (the ...Fails actions).
FairSpec ==
    /\ Spec
    /\ \A c \in Chains :
         /\ WF_vars(TickBegin(c))
         /\ WF_vars(TickReplaced(c) \/ TickNonceTooLow(c))
         /\ WF_vars(TickUpdate(c))

\* ------------------------------------------------------ with a reorg
\* The blocks of chain c that its monitor was notified of and that are no
\* longer on the chain: every notification counts one (line 101), and the
\* watcher stands behind the blocks that are still there.
MaxReorgs == 1
Reorgs(c) == mon[c].block_count - (mon[c].next - 1)

\* The node drops the last block of the chain, one with transactions, after the
\* monitor has handled it (lines 103-125 read that block's body) and while no
\* tick is running; one reorg in all. The account's nonce goes back
\* by the block's transactions, which are in no block any more and not in the
\* mempool; the block that takes its place is notified by the watcher (95-97).
ReorgBlock(c) ==
    /\ \A d \in Chains : mon[d].pc = "idle" /\ Reorgs(d) < MaxReorgs
    /\ Len(node[c].blocks) > 0
    /\ mon[c].next = Len(node[c].blocks) + 1
    /\ LET last == node[c].blocks[Len(node[c].blocks)]
       IN  /\ last # {}
           /\ node' = [node EXCEPT ![c].blocks = SubSeq(@, 1, Len(@) - 1),
                                   ![c].nonce = @ - Cardinality(last)]
    /\ mon' = [mon EXCEPT ![c].next = @ - 1]
    /\ UNCHANGED <<store, sub, nonce_manager, last_sent, updated, fee_in, fee_out,
                   call_in, call_out>>

NextReorg ==
    \/ Next
    \/ \E c \in Chains : ReorgBlock(c)

SpecReorg == Init /\ [][NextReorg]_vars

\* ------------------------------------------ blocks before the submits
\* The relay is running and every chain has got BlocksBeforeSubmits blocks,
\* none of them handled by its monitor yet, before the first submit is called.
BlocksBeforeSubmits == 1
InitBlockFirst ==
    /\ store = EmptyFn
    /\ mon = [c \in Chains |-> IdleMonitor]
    /\ sub = [t \in Calls |-> NewCall]
    /\ node = [c \in Chains |->
                 [mempool |-> {}, blocks |-> [i \in 1..BlocksBeforeSubmits |-> {}],
                  nonce |-> 0]]
    /\ nonce_manager = [c \in Chains |-> 0]
    /\ last_sent = [c \in Chains |-> EmptyFn]
    /\ updated = {}
    /\ fee_in = <<>>
    /\ fee_out = <<>>
    /\ call_in = <<>>
    /\ call_out = <<>>

SpecBlockFirst == InitBlockFirst /\ [][Next]_vars

\* --------------------------------------- the block counter on its own
\* A monitor with no request in the table, over blocks without transactions:
\* a block is mined and its notification handled at once (lines 95-108 and
\* 163 with nothing pending), so the tick only counts. The blocks are not
\* kept in the node's history here.
EmptyTick(c) ==
    /\ mon[c].pc = "idle"
    /\ get_pending(store, c) = {}
    /\ \E counted \in block_count_add_one(mon[c].block_count) :
         mon' = [mon EXCEPT ![c] =
                   IF is_none(counted) THEN DeadMonitor
                   ELSE [@ EXCEPT !.block_count = unwrap(counted)]]
    /\ UNCHANGED <<store, node, last_sent, updated>>
    /\ UNCHANGED MonOthers

NextCount == \E c \in Chains : EmptyTick(c)

SpecCount == Init /\ [][NextCount]_vars

\* ------------------------------------- the fee defaults of submit on their own
\* An intent's fee fields, each absent or a value, and the network's estimate.
OptionalFees == {None} \cup { Some(v) : v \in 0..MaxFeeValue }
GasInputs ==
    [intent : [max_fee_per_gas : OptionalFees, max_priority_fee_per_gas : OptionalFees],
     estimate : Estimates]

InitGas ==
    /\ store = EmptyFn
    /\ mon = [c \in Chains |-> IdleMonitor]
    /\ sub = [t \in Calls |-> NewCall]
    /\ node = [c \in Chains |-> [mempool |-> {}, blocks |-> <<>>, nonce |-> 0]]
    /\ nonce_manager = [c \in Chains |-> 0]
    /\ last_sent = [c \in Chains |-> EmptyFn]
    /\ updated = {}
    /\ fee_in \in GasInputs
    /\ fee_out = <<>>
    /\ call_in = <<>>
    /\ call_out = <<>>

\* Lines 68-76: the fees of the transaction that is filled, then broadcast and
\* saved, and whether estimate_eip1559_fees was called for it.
ApplyWithGas ==
    /\ fee_out = <<>>
    /\ LET tx == filled("AnvilHardhat", with_gas(fee_in.intent, fee_in.estimate))
       IN  fee_out' = <<tx.max_fee_per_gas, tx.max_priority_fee_per_gas,
                        estimate_needed(fee_in.intent)>>
    /\ UNCHANGED <<store, mon, sub, node, nonce_manager, last_sent, updated, fee_in,
                   call_in, call_out>>

NextGas == ApplyWithGas

SpecGas == InitGas /\ [][NextGas]_vars

\* ---------------------------------- the in-memory EIP1559BlockEscalator
\* Escalator1559.rs. One escalation tick of escalate() (lines 132-215) over
\* the vector self.txs, which send_transaction (line 77) pushed in the order
\* of the sends, with the fees of the sends.
MaxTracked == 2

\* Lines 242-245.
increase_by_minimum_1559(value) == value + ((value * 10) \div 100) + 1

\* Lines 222-237: (new_max_fee, new_max_priority_fee).
replacement_gas_values(prev_max_fee, prev_max_priority_fee, estimate_max_fee, estimate_max_priority_fee) ==
    LET new_max_priority_fee ==
            Max(estimate_max_priority_fee, increase_by_minimum_1559(prev_max_priority_fee))
        estimate_base_fee == estimate_max_fee - estimate_max_priority_fee
        prev_base_fee == prev_max_fee - prev_max_priority_fee
        new_base_fee == Max(estimate_base_fee, increase_by_minimum_1559(prev_base_fee))
    IN  <<new_base_fee + new_max_priority_fee, new_max_priority_fee>>

\* A tracked transaction with nonce n and the fees of its send.
TrackedTx(n, fees) ==
    [nonce |-> n, chain_id |-> ChainAsU32("AnvilHardhat"),
     max_fee_per_gas |-> Some(fees[1]), max_priority_fee_per_gas |-> Some(fees[2])]

\* The vectors of up to MaxTracked transactions, in the order of their nonces.
TrackedVectors ==
    UNION { { s \in [1..k -> { TrackedTx(n, f) : n \in 0..MaxTracked, f \in Estimates }] :
                \A i \in 1..k : \A j \in 1..k : i < j => s[i].nonce < s[j].nonce }
            : k \in 0..MaxTracked }

\* The tick's inputs: the vector, the hashes of the fetched block (131-134),
\* the estimate (139-140), and the account's nonce at the node, which is past
\* every transaction of the block.
EscalateInputs ==
    { i \in [txs : TrackedVectors,
             block : SUBSET { TxHashOf(TrackedTx(n, f)) : n \in 0..MaxTracked, f \in Estimates },
             estimate : Estimates,
             nonce : 0..(MaxTracked + 1)] :
        /\ i.block \subseteq { TxHashOf(i.txs[k]) : k \in 1..Len(i.txs) }
        /\ \A k \in 1..Len(i.txs) :
              TxHashOf(i.txs[k]) \in i.block => i.txs[k].nonce < i.nonce }

\* Lines 137-144: the lock is taken, len = txs.len(), the loop starts.
InitEscalate ==
    /\ store = EmptyFn
    /\ mon = [c \in Chains |-> IdleMonitor]
    /\ sub = [t \in Calls |-> NewCall]
    /\ node = [c \in Chains |-> [mempool |-> {}, blocks |-> <<>>, nonce |-> 0]]
    /\ nonce_manager = [c \in Chains |-> 0]
    /\ last_sent = [c \in Chains |-> EmptyFn]
    /\ updated = {}
    /\ fee_in = <<>>
    /\ fee_out = <<>>
    /\ call_in \in EscalateInputs
    /\ call_out = [pc |-> "loop", txs |-> call_in.txs, remaining |-> Len(call_in.txs),
                   examined |-> <<>>]

EscalateUnchanged ==
    <<store, mon, sub, node, nonce_manager, last_sent, updated, fee_in, fee_out, call_in>>

\* Line 147: txs.pop() takes the last element of the vector.
popped == call_out.txs[Len(call_out.txs)]
after_pop == SubSeq(call_out.txs, 1, Len(call_out.txs) - 1)

\* One iteration of `for _ in 0..len` has popped; `txs` is the vector it leaves.
Iteration(txs) ==
    call_out' = [call_out EXCEPT !.txs = txs, !.remaining = @ - 1,
                                 !.examined = Append(@, TxHashOf(popped))]

\* Lines 149-155: the popped hash is in the block: continue.
EscalateIncluded ==
    /\ call_out.pc = "loop" /\ call_out.remaining > 0
    /\ TxHashOf(popped) \in call_in.block
    /\ Iteration(after_pop)
    /\ UNCHANGED EscalateUnchanged

\* Lines 162-182 and 207-210: the replacement is sent and pushed.
EscalateReplaced ==
    /\ call_out.pc = "loop" /\ call_out.remaining > 0
    /\ TxHashOf(popped) \notin call_in.block
    /\ popped.nonce >= call_in.nonce
    /\ LET new == replacement_gas_values(unwrap(popped.max_fee_per_gas),
                                         unwrap(popped.max_priority_fee_per_gas),
                                         call_in.estimate[1], call_in.estimate[2])
           bumped == [popped EXCEPT !.max_fee_per_gas = Some(new[1]),
                                    !.max_priority_fee_per_gas = Some(new[2])]
       IN  Iteration(Append(after_pop, bumped))
    /\ UNCHANGED EscalateUnchanged

\* Lines 190-201: "nonce too low": continue, nothing is pushed back.
EscalateNonceTooLow ==
    /\ call_out.pc = "loop" /\ call_out.remaining > 0
    /\ TxHashOf(popped) \notin call_in.block
    /\ popped.nonce < call_in.nonce
    /\ Iteration(after_pop)
    /\ UNCHANGED EscalateUnchanged

\* Lines 202-204: another error of send_transaction: escalate() returns it.
EscalateFails ==
    /\ call_out.pc = "loop" /\ call_out.remaining > 0
    /\ TxHashOf(popped) \notin call_in.block
    /\ call_out' = [call_out EXCEPT !.pc = "failed", !.txs = after_pop, !.remaining = 0,
                                    !.examined = Append(@, TxHashOf(popped))]
    /\ UNCHANGED EscalateUnchanged

\* Line 211: the loop has run len times; the tick is over.
EscalateDone ==
    /\ call_out.pc = "loop" /\ call_out.remaining = 0
    /\ call_out' = [call_out EXCEPT !.pc = "done"]
    /\ UNCHANGED EscalateUnchanged

NextEscalate ==
    \/ EscalateIncluded
    \/ EscalateReplaced
    \/ EscalateNonceTooLow
    \/ EscalateFails
    \/ EscalateDone

SpecEscalate == InitEscalate /\ [][NextEscalate]_vars

\* ------------------------------------------- the fee policy on its own
\* bump(prev_max_fee, prev_max_priority_fee, est_max_fee, est_max_priority_fee)
FeeInputs ==
    { i \in [prev_max_fee : 0..MaxFeeValue, prev_max_priority_fee : 0..MaxFeeValue,
             est_max_fee : 0..MaxFeeValue, est_max_priority_fee : 0..MaxFeeValue] :
        /\ i.prev_max_fee >= i.prev_max_priority_fee
        /\ i.est_max_fee >= i.est_max_priority_fee }

InitBump ==
    /\ store = EmptyFn
    /\ mon = [c \in Chains |-> IdleMonitor]
    /\ sub = [t \in Calls |-> NewCall]
    /\ node = [c \in Chains |-> [mempool |-> {}, blocks |-> <<>>, nonce |-> 0]]
    /\ nonce_manager = [c \in Chains |-> 0]
    /\ last_sent = [c \in Chains |-> EmptyFn]
    /\ updated = {}
    /\ fee_in \in FeeInputs
    /\ fee_out = <<>>
    /\ call_in = <<>>
    /\ call_out = <<>>

ApplyBump ==
    /\ fee_out = <<>>
    /\ LET tx == bump_transaction(
                    [nonce |-> 0, chain_id |-> 0,
                     max_fee_per_gas |-> Some(fee_in.prev_max_fee),
                     max_priority_fee_per_gas |-> Some(fee_in.prev_max_priority_fee)],
                    fee_in.est_max_fee, fee_in.est_max_priority_fee)
       IN  fee_out' = <<unwrap(tx.max_fee_per_gas), unwrap(tx.max_priority_fee_per_gas)>>
    /\ UNCHANGED <<store, mon, sub, node, nonce_manager, last_sent, updated, fee_in,
                   call_in, call_out>>

NextBump == ApplyBump

SpecBump == InitBump /\ [][NextBump]_vars

\* ------------------- single calls of the repository and of the facade
\* The facade's chain -> monitor mapping is `mon`; a chain without an entry:
NoMonitor == [IdleMonitor EXCEPT !.pc = "none"]

\* anyhow::Result<T> of a call: Ok(v) or Err(e).
Ok(v) == [ok |-> {v}, err |-> {}]
Err(e) == [ok |-> {}, err |-> {e}]

monitor_of_Any(m, chain) == Some(chain)
\* The facade's lookup of the monitor of a chain.
monitor_of(m, chain) == IF m[chain].pc = "none" THEN None ELSE Some(chain)

setup_monitor_Replace(m, chain) ==
    [result |-> "Ok", monitors |-> [m EXCEPT ![chain] = IdleMonitor], spawned |-> 1]
\* setup_monitor(signer, provider, chain, block_frequency): a chain that has a
\* monitor is refused; otherwise ChainMonitor::new builds the monitor and spawns
\* its loop, and the mapping gets the entry.
setup_monitor(m, chain) ==
    IF m[chain].pc # "none"
    THEN [result |-> "AlreadyRegistered", monitors |-> m, spawned |-> 0]
    ELSE [result |-> "Ok", monitors |-> [m EXCEPT ![chain] = IdleMonitor], spawned |-> 1]

\* A filled transaction of the relay with nonce id - 1 on a chain.
CallTx(chain, id, e) ==
    [nonce |-> id - 1, chain_id |-> ChainAsU32(chain),
     max_fee_per_gas |-> Some(e[1]), max_priority_fee_per_gas |-> Some(e[2])]

\* The rows save and update_many can have left under an id.
Rows(id) ==
    { [hash |-> FormatDebug(TxHashOf(CallTx(c, id, <<60, 10>>))),
       tx |-> CallTx(c, id, <<60, 10>>), mined |-> m, chain |-> ChainAsU32(c)] :
        c \in Chains, m \in BOOLEAN }

Tables ==
    UNION { { st \in [D -> UNION { Rows(id) : id \in D }] :
                \A id \in D : st[id] \in Rows(id) } : D \in SUBSET Calls }

CallInputs ==
    { [op |-> o, id |-> id, chain |-> c] :
        o \in {"save", "status", "submit", "register"},
        id \in 1..(MaxSubmits + 1), c \in Chains }

InitCalls ==
    /\ store \in Tables
    /\ mon \in [Chains -> {IdleMonitor, NoMonitor}]
    /\ sub = [t \in Calls |-> NewCall]
    /\ node = [c \in Chains |-> [mempool |-> {}, blocks |-> <<>>, nonce |-> 0]]
    /\ nonce_manager = [c \in Chains |-> 0]
    /\ last_sent = [c \in Chains |-> EmptyFn]
    /\ updated = {}
    /\ fee_in = <<>>
    /\ fee_out = <<>>
    /\ call_in \in CallInputs
    /\ call_out = <<>>

\* save(id, hash, tx, false, chain) called with an id of the caller's choice.
SaveCall ==
    /\ call_out = <<>>
    /\ call_in.op = "save"
    /\ LET tx == CallTx(call_in.chain, call_in.id, <<75, 20>>)
       IN  /\ store' = save(store, call_in.id, TxHashOf(tx), tx, FALSE, call_in.chain)
           /\ call_out' = <<IF Conflict(store, call_in.id) THEN "Conflict" ELSE "Ok">>
    /\ UNCHANGED <<mon, sub, node, nonce_manager, last_sent, updated, fee_in, fee_out,
                   call_in>>

\* get_transaction_status(id)
StatusCall ==
    /\ call_out = <<>>
    /\ call_in.op = "status"
    /\ call_out' = <<get_transaction_status(store, call_in.id)>>
    /\ UNCHANGED <<store, mon, sub, node, nonce_manager, last_sent, updated, fee_in,
                   fee_out, call_in>>

\* The facade's send_monitored_transaction(tx, chain): without a monitor for the
\* chain the call is refused; otherwise the chain's ChainMonitor runs its
\* send_monitored_transaction (estimate, fill, send, save; here with no other
\* task in between).
SubmitCall ==
    /\ call_out = <<>>
    /\ call_in.op = "submit"
    /\ LET found == monitor_of(mon, call_in.chain)
       IN  IF is_none(found)
           THEN /\ call_out' = <<Err("UnsupportedChain")>>
                /\ UNCHANGED <<store, node, nonce_manager, last_sent>>
           ELSE \E intent \in Intents, e \in Estimates :
                  LET c == unwrap(found)
                      tx == filled(c, with_gas(intent, e))
                      id == new_v4(MaxSubmits + 1)
                  IN  /\ nonce_manager' = [nonce_manager EXCEPT ![c] = @ + 1]
                      /\ node' = [node EXCEPT ![c].mempool = @ \cup {tx}]
                      /\ last_sent' = [last_sent EXCEPT ![c] = (tx.nonce :> tx) @@ @]
                      /\ store' = save(store, id, TxHashOf(tx), tx, FALSE, c)
                      /\ call_out' = <<Ok(id)>>
    /\ UNCHANGED <<mon, sub, updated, fee_in, fee_out, call_in>>

\* setup_monitor(.., chain, ..)
SetupMonitorCall ==
    /\ call_out = <<>>
    /\ call_in.op = "register"
    /\ LET r == setup_monitor(mon, call_in.chain)
       IN  /\ mon' = r.monitors
           /\ call_out' = <<[result |-> r.result, spawned |-> r.spawned]>>
    /\ UNCHANGED <<store, sub, node, nonce_manager, last_sent, updated, fee_in, fee_out,
                   call_in>>

NextCalls ==
    \/ SaveCall
    \/ StatusCall
    \/ SubmitCall
    \/ SetupMonitorCall

SpecCalls == InitCalls /\ [][NextCalls]_vars

\* ================================================================== claims
status(id) == get_transaction_status(store, id)
ChainOf(id) == ChainTryFrom(store[id].chain)
\* The hashes the node of chain c has a receipt for.
Receipts(c) == UNION { node[c].blocks[i] : i \in 1..Len(node[c].blocks) }
priority(tx) == unwrap(tx.max_priority_fee_per_gas)
base(tx) == unwrap(tx.max_fee_per_gas) - unwrap(tx.max_priority_fee_per_gas)

\* C1: once a record has mined = true, no later step (tick of any chain, submit,
\* update_many) changes its hash, tx or mined flag.
C1_MinedIsTerminal ==
    [][\A id \in DOMAIN store :
          store[id].mined =>
             /\ id \in DOMAIN store'
             /\ store'[id].hash = store[id].hash
             /\ store'[id].tx = store[id].tx
             /\ store'[id].mined]_vars

\* A mined record while a later tick of its chain holds a batch to write.
C1_Witness ==
    \E id \in DOMAIN store :
       /\ store[id].mined
       /\ mon[ChainOf(id)].pc = "loop"
       /\ mon[ChainOf(id)].requests = {}
       /\ mon[ChainOf(id)].updates # {}

\* C2 as stated: between two status(id) observations the (mined, hash) pair is
\* unchanged or mined went from false to true.
C2_UnchangedOrMined ==
    [][\A id \in DOMAIN store :
          \/ get_transaction_status(store', id) = status(id)
          \/ /\ ~unwrap(status(id)).mined
             /\ get_transaction_status(store', id) # None
             /\ unwrap(get_transaction_status(store', id)).mined]_vars

\* C2 amended: the (mined, hash) pair of a status changes only while mined is
\* false (the hash by a re-broadcast, or mined to true); with mined = true it
\* never changes again.
C2_ChangesOnlyWhilePending ==
    [][\A id \in DOMAIN store :
          \/ get_transaction_status(store', id) = status(id)
          \/ /\ ~unwrap(status(id)).mined
             /\ get_transaction_status(store', id) # None]_vars

\* A status whose hash was replaced and which was then reported mined.
C2_Witness ==
    \E t \in Calls :
       /\ sub[t].pc = "done"
       /\ status(t) # None
       /\ unwrap(status(t)).mined
       /\ unwrap(status(t)).hash # unwrap(sub[t].hash)

\* C3: in every reachable state a record with mined = false has the hash of the
\* transaction most recently broadcast for its request.
C3_HashIsLastBroadcast ==
    \A id \in DOMAIN store :
       ~store[id].mined =>
          unwrap(status(id)).hash = TxHashOf(last_sent[ChainOf(id)][store[id].tx.nonce])

\* C4: a status (mined = true, hash = H) names a transaction the chain has a
\* receipt for.
C4_MinedHashHasReceipt ==
    \A id \in DOMAIN store :
       store[id].mined => unwrap(status(id)).hash \in Receipts(ChainOf(id))

\* C5: an update that leaves a record non-mined with a new hash persists a tx
\* whose fee components are each at least the minimum bump of those persisted before.
C5_PersistedFeesBumped ==
    [][\A id \in DOMAIN store :
          (/\ store'[id].hash # store[id].hash
           /\ ~store'[id].mined)
          => /\ priority(store'[id].tx) >= increase_by_minimum(priority(store[id].tx))
             /\ base(store'[id].tx) >= increase_by_minimum(base(store[id].tx))]_vars

\* C6: a re-broadcast carries fee components strictly greater than those of the
\* previous broadcast of the same request.
C6_RebroadcastFeesIncrease ==
    [][\A c \in Chains :
          \A request \in mon[c].requests :
             (/\ mon'[c].pc = "loop"
              /\ request \notin mon'[c].requests
              /\ \E u \in mon'[c].updates : u.id = request.id /\ ~u.mined)
             => /\ priority(last_sent'[c][request.tx.nonce])
                     > priority(last_sent[c][request.tx.nonce])
                /\ base(last_sent'[c][request.tx.nonce])
                     > base(last_sent[c][request.tx.nonce])]_vars

\* C7: for prev_max_fee >= prev_max_priority_fee and est_max_fee >=
\* est_max_priority_fee, bump returns (nf, np) with nf >= np,
\* np >= prev_max_priority_fee*110/100 + 1 and
\* nf - np >= (prev_max_fee - prev_max_priority_fee)*110/100 + 1.
C7_BumpBounds ==
    fee_out # <<>> =>
       /\ fee_out[1] >= fee_out[2]
       /\ fee_out[2] >= ((fee_in.prev_max_priority_fee * 110) \div 100) + 1
       /\ fee_out[1] - fee_out[2] >=
             (((fee_in.prev_max_fee - fee_in.prev_max_priority_fee) * 110) \div 100) + 1

\* bump applied where the 10% share is not zero and the minimum bump decides both components.
C7_Witness ==
    /\ fee_out # <<>>
    /\ fee_in.prev_max_priority_fee >= 10
    /\ fee_in.prev_max_fee - fee_in.prev_max_priority_fee >= 1
    /\ fee_out[2] > fee_in.est_max_priority_fee
    /\ fee_out[1] - fee_out[2] > fee_in.est_max_fee - fee_in.est_max_priority_fee

\* C8: after submit returned id and before any tick updated the record,
\* status(id) is (mined = false, hash = H), H the hash of the submit's broadcast,
\* and H is what the row holds.
C8_StatusAfterSubmit ==
    \A t \in Calls :
       (sub[t].pc = "done" /\ unwrap(sub[t].id) \notin updated)
       => /\ status(unwrap(sub[t].id))
               = Some([mined |-> FALSE, hash |-> unwrap(sub[t].hash)])
          /\ store[unwrap(sub[t].id)].hash = FormatDebug(unwrap(sub[t].hash))

\* A returned id whose record a running tick has read but not yet updated.
C8_Witness ==
    \E t \in Calls :
       /\ sub[t].pc = "done"
       /\ unwrap(sub[t].id) \notin updated
       /\ mon[sub[t].chain].pc = "loop"
       /\ \E u \in mon[sub[t].chain].updates : u.id = unwrap(sub[t].id)

\* C11: when the send of a request's replacement is answered "nonce too low"
\* the tick goes on: the request leaves the tick's work list with the update
\* (id, mined = true, hash = the hash the record holds), the other requests of
\* the tick stay to be handled and the store is untouched; and when the tick's
\* batch is written, status(id) is (true, that hash).
C11_NonceTooLowFallback ==
    /\ [][\A c \in Chains :
            \A request \in mon[c].requests :
               (/\ mon[c].pc = "loop"
                /\ replacement_tx(c, request).nonce < node[c].nonce
                /\ request \notin mon'[c].requests
                /\ mon'[c].pc # "dead")
               => /\ mon'[c].pc = "loop"
                  /\ mon'[c].requests = mon[c].requests \ {request}
                  /\ mon'[c].updates = mon[c].updates \cup
                        {[id |-> request.id, mined |-> TRUE,
                          hash |-> TxHashFromStr(store[request.id].hash)]}
                  /\ store' = store]_vars
    /\ [][\A c \in Chains :
            (mon[c].pc = "loop" /\ mon'[c].pc = "idle")
            => \A u \in mon[c].updates :
                  u.mined =>
                     get_transaction_status(store', u.id)
                        = Some([mined |-> TRUE, hash |-> TxHashFromStr(store[u.id].hash)])]_vars

\* A record reported mined by the fallback alone: its hash is in no block, and
\* another request of the same tick was handled after it.
C11_Witness ==
    \E t \in Calls :
       /\ sub[t].pc = "done"
       /\ store[t].mined
       /\ unwrap(status(t)).hash \notin Receipts(sub[t].chain)
       /\ \E t2 \in Calls \ {t} :
             /\ sub[t2].pc = "done"
             /\ sub[t2].chain = sub[t].chain
             /\ t2 \in updated

\* C12: an error of a tick's RPC or store call aborts that tick only; the
\* monitor of the chain keeps running and takes the next block as a new tick.
\* So in every state each chain's monitor task is alive: waiting for a block
\* or inside a tick.
C12_MonitorKeepsRunning ==
    \A c \in Chains : mon[c].pc \in {"idle", "loop"}

\* C13: the monitor of chain A works only on records whose chain is A: the
\* requests a tick holds are of its chain, and a step of A's monitor changes no
\* record of another chain, leaves the other chains' nodes alone, and sends
\* through A's provider only replacements of requests of chain A.
C13_ChainIsolation ==
    /\ [](\A c \in Chains : \A r \in mon[c].requests : r.chain = c)
    /\ [][\A c \in Chains :
            mon'[c] # mon[c] =>
               /\ \A id \in DOMAIN store :
                     ChainOf(id) # c => (id \in DOMAIN store' /\ store'[id] = store[id])
               /\ \A c2 \in Chains \ {c} :
                     node'[c2] = node[c2] /\ last_sent'[c2] = last_sent[c2]
               /\ \A tx \in node'[c].mempool \ node[c].mempool :
                     \E id \in DOMAIN store :
                        /\ ChainOf(id) = c
                        /\ store[id].tx.nonce = tx.nonce
                        /\ store[id].tx.chain_id = tx.chain_id]_vars

\* Requests of both chains are pending; one chain's monitor has re-broadcast and
\* written its request while the other chain's monitor is inside a tick.
C13_Witness ==
    \E t1, t2 \in Calls :
       /\ sub[t1].pc = "done" /\ sub[t2].pc = "done"
       /\ sub[t1].chain # sub[t2].chain
       /\ ~store[t1].mined /\ ~store[t2].mined
       /\ unwrap(status(t1)).hash # unwrap(sub[t1].hash)
       /\ mon[sub[t2].chain].pc = "loop"
       /\ mon[sub[t2].chain].requests # {}

\* C14: update_many of a non-empty batch applies every write of the batch or
\* none: the step that ends a tick's update_many leaves the table with the
\* whole batch written (success) or exactly as it was (an UPDATE or the commit
\* failed), so no state of the table, and no get or get_pending reading it,
\* has part of a batch.
C14_UpdateManyAtomic ==
    [][\A c \in Chains :
          (/\ mon[c].pc = "loop"
           /\ mon[c].requests = {}
           /\ mon[c].updates # {}
           /\ mon'[c].pc # "loop")
          => LET written ==
                   [id \in DOMAIN store |->
                      IF \E u \in mon[c].updates : u.id = id
                      THEN [hash |-> FormatDebug((CHOOSE u \in mon[c].updates : u.id = id).hash),
                            mined |-> (CHOOSE u \in mon[c].updates : u.id = id).mined,
                            tx |-> store[id].tx, chain |-> store[id].chain]
                      ELSE store[id]]
             IN  /\ mon'[c].pc = "idle" => store' = written
                 /\ mon'[c].pc = "dead" => store' = store]_vars

\* The first tick of a chain wrote a batch of two: both records of the chain
\* hold a replacement's hash.
C14_Witness ==
    \E c \in Chains :
       /\ mon[c].pc = "idle"
       /\ mon[c].next = 2
       /\ \A t \in Calls :
             /\ sub[t].pc = "done"
             /\ sub[t].chain = c
             /\ t \in updated
             /\ unwrap(status(t)).hash # unwrap(sub[t].hash)

\* C15: update_many of an empty batch issues no statement, opens no store
\* transaction and leaves the table as it is; a tick in which no request was
\* included or re-broadcast ends with it, and so ends in the step that began it,
\* with the monitor waiting for the next block.
C15_EmptyBatchNoOp ==
    /\ [](update_many_statements({}) = 0 /\ update_many(store, {}) = store)
    /\ [][\A c \in Chains :
            (/\ mon[c].pc = "idle"
             /\ mon'[c].next = mon[c].next + 1
             /\ mon'[c].requests = {}
             /\ mon'[c].updates = {})
            => /\ mon'[c].pc = "idle"
               /\ store' = store]_vars

\* A gated tick found a pending request not in its block and ended with nothing to write.
C15_Witness ==
    \E c \in Chains :
       /\ mon[c].pc = "idle"
       /\ mon[c].block_count = 1
       /\ block_frequency(c) > 1
       /\ node[c].blocks[1] = {}
       /\ \E r \in get_pending(store, c) : r.id \notin updated

\* C16: get_pending(chain) returns exactly the records with mined = false and
\* that chain, each once and as get returns it: no mined record, no record of
\* another chain, and every pending record of the chain that was saved.
C16_GetPendingExact ==
    \A c \in Chains :
       LET got == get_pending(store, c)
           pending == { id \in DOMAIN store :
                          ~store[id].mined /\ ChainTryFrom(store[id].chain) = c }
       IN  /\ \A r \in got : r.id \in pending /\ get(store, r.id) = Some(r)
           /\ \A id \in pending : \E r \in got : r.id = id
           /\ Cardinality(got) = Cardinality(pending)

\* The table holds a mined record and a pending record of one chain and
\* nothing of the other chain.
C16_Witness ==
    \E t1, t2 \in Calls :
       /\ sub[t1].pc = "done" /\ sub[t2].pc = "done"
       /\ sub[t1].chain = sub[t2].chain
       /\ store[t1].mined /\ ~store[t2].mined
       /\ { r.id : r \in get_pending(store, sub[t1].chain) } = {t2}
       /\ \E c \in Chains : get_pending(store, c) = {}

\* C17: save with an id the table holds fails with a conflict and leaves that
\* row (hash, tx, mined, chain) and the rest of the table unchanged; save with a
\* fresh id succeeds, adds exactly the row of its arguments and changes no other.
C17_SaveConflict ==
    [][(call_in.op = "save" /\ call_out' # call_out)
       => IF call_in.id \in DOMAIN store
          THEN /\ call_out'[1] = "Conflict"
               /\ store' = store
          ELSE /\ call_out'[1] = "Ok"
               /\ DOMAIN store' = DOMAIN store \cup {call_in.id}
               /\ \A id \in DOMAIN store : store'[id] = store[id]
               /\ store'[call_in.id].mined = FALSE
               /\ store'[call_in.id].chain = ChainAsU32(call_in.chain)
               /\ store'[call_in.id].tx = CallTx(call_in.chain, call_in.id, <<75, 20>>)
               /\ store'[call_in.id].hash = FormatDebug(TxHashOf(store'[call_in.id].tx))]_vars

\* save was refused for an id whose row is mined and of another chain than the
\* one passed.
C17_Witness ==
    /\ call_out # <<>>
    /\ call_in.op = "save"
    /\ call_out[1] = "Conflict"
    /\ call_in.id \in DOMAIN store
    /\ store[call_in.id].mined
    /\ store[call_in.id].chain # ChainAsU32(call_in.chain)

C20_AlreadyRegistered ==
    [][(call_in.op = "register" /\ call_out' # call_out)
       => /\ mon[call_in.chain].pc # "none"
             => /\ call_out'[1].result = "AlreadyRegistered"
                /\ call_out'[1].spawned = 0
                /\ mon' = mon
          /\ (IF mon[call_in.chain].pc # "none" THEN 1 ELSE 0) + call_out'[1].spawned <= 1]_vars

\* register was refused for a chain that has a monitor.
C20_Witness ==
    /\ call_out # <<>>
    /\ call_in.op = "register"
    /\ call_out[1].result = "AlreadyRegistered"
    /\ mon[call_in.chain].pc = "idle"

\* The hash is in a block the watcher of chain c has yet to yield.
InUndeliveredBlock(c, hash) ==
    \E i \in 1..Len(node[c].blocks) : i >= mon[c].next /\ hash \in node[c].blocks[i]

\* Call t returned its id and its record is pending with the hash the node last accepted.
PendingWithLastSent(t) ==
    /\ sub[t].pc = "done"
    /\ ~store[t].mined
    /\ store[t].tx.nonce \in DOMAIN last_sent[sub[t].chain]
    /\ unwrap(status(t)).hash = TxHashOf(last_sent[sub[t].chain][store[t].tx.nonce])

\* C9: a request submitted and persisted whose transaction H0 is then included
\* in a block delivered to its chain's monitor eventually has status
\* (mined = true, hash = H0), unless a call of the tick fails.
C9_HappyPath ==
    \A t \in Calls :
       (/\ PendingWithLastSent(t)
        /\ unwrap(status(t)).hash = unwrap(sub[t].hash)
        /\ InUndeliveredBlock(sub[t].chain, unwrap(sub[t].hash))
        /\ mon[sub[t].chain].pc # "dead")
       ~> (\/ /\ sub[t].pc = "done"
              /\ status(t) = Some([mined |-> TRUE, hash |-> unwrap(sub[t].hash)])
           \/ mon[sub[t].chain].pc = "dead")

\* The record is mined with the submit's hash, seen in a block by a tick.
C9_Witness ==
    \E t \in Calls :
       /\ sub[t].pc = "done"
       /\ status(t) = Some([mined |-> TRUE, hash |-> unwrap(sub[t].hash)])
       /\ unwrap(sub[t].hash) \in Receipts(sub[t].chain)
       /\ mon[sub[t].chain].pc = "idle"
       /\ mon[sub[t].chain].next > Len(node[sub[t].chain].blocks)

\* The transaction of call t's submit is neither in the mempool nor in a block,
\* and its nonce is still unused on the chain.
DroppedOriginal(t) ==
    /\ unwrap(status(t)).hash = unwrap(sub[t].hash)
    /\ unwrap(sub[t].tx) \notin node[sub[t].chain].mempool
    /\ node[sub[t].chain].nonce <= store[t].tx.nonce
    /\ \E i \in 1..Len(node[sub[t].chain].blocks) : i >= mon[sub[t].chain].next

\* The original of call t was dropped and a block is still to be delivered.
DroppedAndDue(t) ==
    /\ PendingWithLastSent(t)
    /\ block_frequency(sub[t].chain) = 1
    /\ DroppedOriginal(t)
    /\ mon[sub[t].chain].pc # "dead"

\* The status of call t is a replacement's hash, not mined; or the monitor ended.
ReplacedOrDead(t) ==
    \/ /\ sub[t].pc = "done"
       /\ ~unwrap(status(t)).mined
       /\ unwrap(status(t)).hash # unwrap(sub[t].hash)
    \/ mon[sub[t].chain].pc = "dead"

\* From DroppedAndDue until the replacement is the status: the request waits
\* for a block or for its turn in the running tick, with its nonce unused and
\* no transaction of its nonce at the node; or the running tick has sent the
\* replacement and holds its update.
OwedReplacement(t) ==
    /\ sub[t].pc = "done"
    /\ block_frequency(sub[t].chain) = 1
    /\ mon[sub[t].chain].pc # "dead"
    /\ ~unwrap(status(t)).mined
    /\ unwrap(status(t)).hash = unwrap(sub[t].hash)
    /\ LET c == sub[t].chain
       IN  \/ /\ node[c].nonce <= store[t].tx.nonce
              /\ \A tx \in node[c].mempool : tx.nonce # store[t].tx.nonce
              /\ \A u \in mon[c].updates : u.id # new_v4(t)
              /\ \/ \E i \in 1..Len(node[c].blocks) : i >= mon[c].next
                 \/ \E r \in mon[c].requests : r.id = new_v4(t)
           \/ /\ mon[c].pc = "loop"
              /\ \E u \in mon[c].updates :
                    u.id = new_v4(t) /\ ~u.mined /\ u.hash # unwrap(sub[t].hash)

\* The replacement that is the status of call t is in a block still to be delivered.
ReplacementDue(t) ==
    /\ PendingWithLastSent(t)
    /\ block_frequency(sub[t].chain) = 1
    /\ unwrap(status(t)).hash # unwrap(sub[t].hash)
    /\ InUndeliveredBlock(sub[t].chain, unwrap(status(t)).hash)
    /\ mon[sub[t].chain].pc # "dead"

\* The status of call t is mined with the replacement's hash, the one the node
\* accepted last, which has a receipt; or the monitor ended.
ReplacementMinedOrDead(t) ==
    \/ /\ sub[t].pc = "done"
       /\ unwrap(status(t)).mined
       /\ unwrap(status(t)).hash # unwrap(sub[t].hash)
       /\ unwrap(status(t)).hash = TxHashOf(last_sent[sub[t].chain][store[t].tx.nonce])
       /\ unwrap(status(t)).hash \in Receipts(sub[t].chain)
    \/ mon[sub[t].chain].pc = "dead"

\* From ReplacementDue until the status is mined: the replacement is in a block
\* that is still to be delivered, any update the running tick holds for it
\* carrying the same hash; or the running tick holds its mined update.
OwedMined(t) ==
    /\ PendingWithLastSent(t)
    /\ block_frequency(sub[t].chain) = 1
    /\ mon[sub[t].chain].pc # "dead"
    /\ unwrap(status(t)).hash # unwrap(sub[t].hash)
    /\ unwrap(status(t)).hash \in Receipts(sub[t].chain)
    /\ LET c == sub[t].chain
       IN  \/ /\ InUndeliveredBlock(c, unwrap(status(t)).hash)
              /\ \A u \in mon[c].updates :
                    u.id = new_v4(t) => u.hash = unwrap(status(t)).hash
           \/ /\ mon[c].pc = "loop"
              /\ RequestUpdate(new_v4(t), TRUE, unwrap(status(t)).hash) \in mon[c].updates

\* C10: with block_frequency = 1 every tick hands each pending request that is
\* not in its block to the re-broadcast; a pending request whose transaction H0
\* was dropped gets, when a block is delivered, a replacement with a hash
\* H1 # H0 as its status; and once the replacement is in a delivered block the
\* status becomes (mined = true, hash = H1). (Unless a call of the tick fails.)
\* Each of the two "P leads to Q" is stated as: P implies an obligation; the
\* obligation stays until Q; and infinitely often the obligation is absent
\* or Q holds. Together these give P ~> Q.
C10_Resubmission ==
    /\ [][\A c \in Chains :
            (/\ block_frequency(c) = 1
             /\ mon[c].pc = "idle"
             /\ mon'[c].pc # "dead"
             /\ mon'[c].next # mon[c].next)
            => mon'[c].requests =
                 { r \in get_pending(store, c) :
                     r.hash \notin node[c].blocks[mon[c].next] }]_vars
    /\ [](\A t \in Calls : DroppedAndDue(t) => OwedReplacement(t))
    /\ [][\A t \in Calls :
            (OwedReplacement(t) /\ ~ ReplacedOrDead(t))
            => (OwedReplacement(t)' \/ ReplacedOrDead(t)')]_vars
    /\ \A t \in Calls : []<>(~ OwedReplacement(t) \/ ReplacedOrDead(t))
    /\ [](\A t \in Calls : ReplacementDue(t) => OwedMined(t))
    /\ [][\A t \in Calls :
            (OwedMined(t) /\ ~ ReplacementMinedOrDead(t))
            => (OwedMined(t)' \/ ReplacementMinedOrDead(t)')]_vars
    /\ \A t \in Calls : []<>(~ OwedMined(t) \/ ReplacementMinedOrDead(t))

\* The original never got a receipt; the record is mined with the replacement's
\* hash, which has one.
C10_Witness ==
    \E t \in Calls :
       /\ sub[t].pc = "done"
       /\ block_frequency(sub[t].chain) = 1
       /\ unwrap(status(t)).mined
       /\ unwrap(status(t)).hash # unwrap(sub[t].hash)
       /\ unwrap(status(t)).hash \in Receipts(sub[t].chain)
       /\ unwrap(sub[t].hash) \notin Receipts(sub[t].chain)
       /\ node[sub[t].chain].blocks[1] = {}

\* C21: a replacement has the nonce (and chain id) of the transaction it
\* replaces: a monitor's broadcast is for a request of its tick and carries the
\* nonce and chain id of that request's persisted tx, so all broadcasts of one
\* id share a nonce; and two ids of one chain never have the same nonce.
C21_ReplacementSharesNonce ==
    /\ [][\A c \in Chains :
            mon'[c] # mon[c] =>
               \A tx \in node'[c].mempool \ node[c].mempool :
                  \E request \in mon[c].requests :
                     /\ request \notin mon'[c].requests
                     /\ tx.nonce = store[request.id].tx.nonce
                     /\ tx.chain_id = store[request.id].tx.chain_id
                     /\ tx.nonce = unwrap(sub[request.id].tx).nonce]_vars
    /\ [](\A id1, id2 \in DOMAIN store :
            (id1 # id2 /\ store[id1].chain = store[id2].chain)
            => store[id1].tx.nonce # store[id2].tx.nonce)

\* Two requests of one chain, one of them replaced: the replacement the node
\* accepted last has the nonce of the submit's transaction.
C21_Witness ==
    \E t1, t2 \in Calls :
       /\ t1 # t2
       /\ sub[t1].pc = "done" /\ sub[t2].pc = "done"
       /\ sub[t1].chain = sub[t2].chain
       /\ last_sent[sub[t1].chain][store[t1].tx.nonce] # unwrap(sub[t1].tx)
       /\ last_sent[sub[t1].chain][store[t1].tx.nonce].nonce = unwrap(sub[t1].tx).nonce

\* C24: block_count increases by exactly one with every block notification,
\* for the whole life of the monitor, and counting never ends the monitor.
C24_BlockCountMonotone ==
    [][\A c \in Chains :
         mon'[c] # mon[c] =>
            /\ mon'[c].pc # "dead"
            /\ mon'[c].block_count = mon[c].block_count + 1]_vars

\* C22: inclusion is checked on every block, gated or not: a tick pushes
\* (id, mined = true, the persisted hash) for every pending request of its
\* chain whose persisted hash is in the block, and does not hand that request
\* to a re-broadcast.
C22_InclusionOnEveryBlock ==
    [][\A c \in Chains :
         (mon[c].pc = "idle" /\ mon'[c].next = mon[c].next + 1) =>
            \A r \in get_pending(store, c) :
               tx_has_been_included(node[c].blocks[mon[c].next], r.hash) =>
                  /\ r \notin mon'[c].requests
                  /\ \/ RequestUpdate(r.id, TRUE, r.hash) \in mon'[c].updates
                     \/ /\ mon'[c].pc = "idle"
                        /\ store'[r.id].mined
                        /\ store'[r.id].hash = store[r.id].hash]_vars

\* A gated tick (block_count is no multiple of block_frequency) holds the
\* update of a request it found in its block.
C22_Witness ==
    \E c \in Chains :
       /\ mon[c].pc = "loop"
       /\ mon[c].block_count % block_frequency(c) # 0
       /\ \E u \in mon[c].updates :
             /\ u.mined
             /\ u.hash \in node[c].blocks[mon[c].next - 1]

\* C23: a pending request that is not in the tick's block is handed to a
\* re-broadcast exactly when block_count % block_frequency = 0; on another
\* block the tick neither broadcasts nor pushes an update for it; and a
\* monitor only broadcasts for the requests so chosen.
C23_EscalationGating ==
    [][\A c \in Chains :
         /\ (mon[c].pc = "idle" /\ mon'[c].next = mon[c].next + 1) =>
               LET absent == { r \in get_pending(store, c) :
                                 ~ tx_has_been_included(node[c].blocks[mon[c].next], r.hash) }
               IN  /\ mon'[c].block_count % block_frequency(c) = 0
                         => mon'[c].requests = absent
                   /\ mon'[c].block_count % block_frequency(c) # 0
                         => /\ mon'[c].requests = {}
                            /\ \A r \in absent : \A u \in mon'[c].updates : u.id # r.id
                            /\ \A r \in absent : store'[r.id] = store[r.id]
                   /\ block_frequency(c) = 1 => mon'[c].requests = absent
                   /\ node'[c] = node[c]
         /\ (mon'[c] # mon[c] /\ node'[c].mempool # node[c].mempool) =>
               /\ mon[c].pc = "loop"
               /\ mon[c].block_count % block_frequency(c) = 0
               /\ \E r \in mon[c].requests : r \notin mon'[c].requests]_vars

\* On a chain whose block_frequency is above 1 the second block's tick
\* re-broadcasts, after the first block's tick did not.
C23_Witness ==
    \E c \in Chains :
       /\ block_frequency(c) > 1
       /\ mon[c].pc = "loop"
       /\ mon[c].block_count = block_frequency(c)
       /\ mon[c].requests # {}

\* C25: a re-broadcast that fails with another error than "nonce too low"
\* aborts the tick without update_many: the step leaves every record as it
\* was, the batch collected so far is dropped, and no record of the chain is
\* written afterwards by that monitor.
C25_FailedRebroadcastPersistsNothing ==
    [][\A c \in Chains :
         /\ (mon[c].pc = "loop" /\ mon[c].requests # {} /\ mon'[c].pc = "dead") =>
               /\ store' = store
               /\ mon'[c].updates = {}
               /\ mon'[c].requests = {}
         /\ mon[c].pc = "dead" =>
               /\ mon'[c] = mon[c]
               /\ \A id \in DOMAIN store :
                     store[id].chain = ChainAsU32(c) => store'[id] = store[id]]_vars

\* The tick replaced one request and then failed on another of the chain: the
\* replacement is at the node, the record still has the hash of the submit.
C25_Witness ==
    \E t1, t2 \in Calls :
       LET c == sub[t1].chain
       IN  /\ t1 # t2
           /\ sub[t1].pc = "done" /\ sub[t2].pc = "done"
           /\ sub[t2].chain = c
           /\ mon[c].pc = "dead"
           /\ updated = {}
           /\ ~ store[t1].mined /\ ~ store[t2].mined
           /\ last_sent[c][store[t1].tx.nonce] # store[t1].tx
           /\ store[t1].hash = FormatDebug(unwrap(sub[t1].hash))
           /\ last_sent[c][store[t2].tx.nonce] = store[t2].tx

\* C26: a failed tick is repaired by the next one: while a chain has pending
\* records and a block that its monitor has not handled, the monitor goes on
\* to handle every block, reading get_pending in each of these ticks.
C26_NextTickRepairs ==
    \A c \in Chains :
       (get_pending(store, c) # {} /\ mon[c].next <= Len(node[c].blocks))
       ~> (mon[c].pc # "dead" /\ mon[c].next > Len(node[c].blocks))

\* C27: every hash written to a record was submitted: whenever a record is
\* created or its hash changes, the new hash is the hash of the transaction
\* that the node accepted last for the record's nonce (last_sent is written by
\* successful sends only); in particular a record is created only by a call
\* whose broadcast succeeded, with the hash of that broadcast.
C27_StoredHashWasSubmitted ==
    [][\A id \in DOMAIN store' :
         (id \notin DOMAIN store \/ store'[id].hash # store[id].hash) =>
            LET c == ChainTryFrom(store'[id].chain)
                nonce == store'[id].tx.nonce
            IN  /\ nonce \in DOMAIN last_sent'[c]
                /\ store'[id].hash = FormatDebug(TxHashOf(last_sent'[c][nonce]))
                /\ id \notin DOMAIN store =>
                      /\ sub[id].pc = "sent"
                      /\ store'[id].hash = FormatDebug(unwrap(sub[id].hash))
                      /\ last_sent[c][nonce] = unwrap(sub[id].tx)]_vars

\* A record whose hash was rewritten by a tick: it is the hash of the
\* replacement the node accepted, not that of the submit.
C27_Witness ==
    \E t \in Calls :
       /\ sub[t].pc = "done"
       /\ t \in updated
       /\ store[t].hash # FormatDebug(unwrap(sub[t].hash))
       /\ store[t].hash = FormatDebug(TxHashOf(last_sent[sub[t].chain][store[t].tx.nonce]))

\* C28: a submit that fails returns no id and leaves no record: a failed
\* call has no id and no record under the id it would have got, and the
\* failing step writes nothing to the table; when it is the save that fails,
\* the transaction stays broadcast while no record of the chain has its nonce.
C28_FailedSubmitPersistsNothing ==
    /\ [](\A t \in Calls :
            sub[t].pc = "failed" => (sub[t].id = None /\ new_v4(t) \notin DOMAIN store))
    /\ [][\A t \in Calls :
            (sub[t].pc # "failed" /\ sub'[t].pc = "failed") =>
               /\ store' = store
               /\ node' = node
               /\ sub'[t].id = None
               /\ sub[t].pc = "sent" =>
                     /\ last_sent'[sub[t].chain][unwrap(sub[t].tx).nonce] = unwrap(sub[t].tx)
                     /\ \A id \in DOMAIN store' :
                           ~ (/\ store'[id].chain = ChainAsU32(sub[t].chain)
                              /\ store'[id].tx.nonce = unwrap(sub[t].tx).nonce)]_vars

\* A call failed in its save: its transaction is in the mempool, no call is
\* about to save it and no record has its nonce.
C28_Witness ==
    \E t \in Calls : \E tx \in node[sub[t].chain].mempool :
       /\ sub[t].pc = "failed"
       /\ \A u \in Calls : sub[u].tx # Some(tx)
       /\ \A id \in DOMAIN store :
             ~ (store[id].chain = tx.chain_id /\ store[id].tx.nonce = tx.nonce)

\* C29: submit takes both fees from the network's estimate when the intent
\* lacks either of them, also the one the caller gave; with both given it
\* keeps them and asks for no estimate.
C29_FeesOnlyWhenNeeded ==
    fee_out # <<>> =>
       IF fee_in.intent.max_fee_per_gas = None \/ fee_in.intent.max_priority_fee_per_gas = None
       THEN /\ fee_out[1] = Some(fee_in.estimate[1])
            /\ fee_out[2] = Some(fee_in.estimate[2])
            /\ fee_out[3]
       ELSE /\ fee_out[1] = fee_in.intent.max_fee_per_gas
            /\ fee_out[2] = fee_in.intent.max_priority_fee_per_gas
            /\ ~ fee_out[3]

\* The caller gave max_priority_fee only (as main.rs does): it is replaced
\* by the estimate's.
C29_Witness ==
    /\ fee_out # <<>>
    /\ fee_in.intent.max_fee_per_gas = None
    /\ fee_in.intent.max_priority_fee_per_gas = Some(1)
    /\ fee_out[2] = Some(fee_in.estimate[2])
    /\ fee_out[2] # Some(1)

\* C30: bump computes exactly new_priority = max(est_priority,
\* min_bump(prev_priority)), new_base = max(est_max_fee - est_priority,
\* min_bump(prev_max_fee - prev_priority)) and new_max_fee = new_base +
\* new_priority, with min_bump(x) = x + (x * 10) \div 100 + 1; a previous
\* component of zero gives max(estimate, 1).
C30_BumpExact ==
    fee_out # <<>> =>
       LET prev_priority == fee_in.prev_max_priority_fee
           prev_base == fee_in.prev_max_fee - fee_in.prev_max_priority_fee
           est_priority == fee_in.est_max_priority_fee
           est_base == fee_in.est_max_fee - fee_in.est_max_priority_fee
           min_priority == prev_priority + ((prev_priority * 10) \div 100) + 1
           min_base == prev_base + ((prev_base * 10) \div 100) + 1
           new_priority == IF est_priority >= min_priority THEN est_priority ELSE min_priority
           new_base == IF est_base >= min_base THEN est_base ELSE min_base
       IN  /\ fee_out[2] = new_priority
           /\ fee_out[1] = new_base + new_priority
           /\ prev_priority = 0 =>
                 fee_out[2] = (IF est_priority >= 1 THEN est_priority ELSE 1)
           /\ prev_base = 0 =>
                 fee_out[1] - fee_out[2] = (IF est_base >= 1 THEN est_base ELSE 1)

\* Both previous components and both estimates are zero: the bump is 1 + 1.
\* And a previous priority fee of 10 against a lower estimate gives 12.
C30_Witness ==
    /\ fee_out # <<>>
    /\ \/ /\ fee_in.prev_max_fee = 0 /\ fee_in.est_max_fee = 0
          /\ fee_out = <<2, 1>>
       \/ /\ fee_in.prev_max_priority_fee = 10 /\ fee_in.est_max_priority_fee < 12
          /\ fee_out[2] = 12

\* C31: the updates of one record are totally ordered. A monitor takes the
\* next block notification only when its previous tick is over (its batch
\* written, nothing left to re-broadcast); an existing record changes only in
\* the update_many of the monitor of its chain, which ends that tick; a step of
\* a submit changes no existing record; and the requests and updates a monitor
\* holds are of its own chain.
C31_UpdatesTotallyOrdered ==
    /\ [][\A c \in Chains :
            mon'[c].next = mon[c].next + 1 =>
               /\ mon[c].pc = "idle"
               /\ mon[c].updates = {}
               /\ mon[c].requests = {}]_vars
    /\ [][\A id \in DOMAIN store :
            store'[id] # store[id] =>
               LET c == ChainTryFrom(store[id].chain)
               IN  /\ sub' = sub
                   /\ mon[c].pc = "loop"
                   /\ mon[c].requests = {}
                   /\ \E u \in mon[c].updates : u.id = id
                   /\ mon'[c].pc = "idle"
                   /\ mon'[c].updates = {}
                   /\ \A d \in Chains \ {c} : mon'[d] = mon[d]]_vars
    /\ [][sub' # sub => \A id \in DOMAIN store : store'[id] = store[id]]_vars
    /\ [](\A c \in Chains :
            /\ \A u \in mon[c].updates :
                  u.id \in DOMAIN store /\ store[u.id].chain = ChainAsU32(c)
            /\ \A r \in mon[c].requests :
                  r.id \in DOMAIN store /\ store[r.id].chain = ChainAsU32(c))

\* A record that a tick has written is in the batch of a later tick of the
\* same monitor.
C31_Witness ==
    \E t \in Calls :
       /\ sub[t].pc = "done"
       /\ t \in updated
       /\ mon[sub[t].chain].pc = "loop"
       /\ \E u \in mon[sub[t].chain].updates : u.id = t

\* C32: after a reorg, a tick on an escalation block hands to a re-broadcast
\* every request of its chain whose transaction was never replaced and whose
\* persisted hash is in no block of the chain any more.
C32_ReorgRebroadcast ==
    [][\A c \in Chains :
         (/\ mon[c].pc = "idle"
          /\ mon'[c].pc # "dead"
          /\ mon'[c].next = mon[c].next + 1
          /\ Reorgs(c) > 0
          /\ ~ Gated(c, mon'[c].block_count)) =>
            \A id \in DOMAIN store :
               (/\ store[id].chain = ChainAsU32(c)
                /\ last_sent[c][store[id].tx.nonce] = store[id].tx
                /\ \A i \in 1..Len(node[c].blocks) :
                      ~ tx_has_been_included(node[c].blocks[i], TxHashFromStr(store[id].hash)))
               => \E r \in mon'[c].requests : r.id = id]_vars

\* The watcher of chain c has yet to yield a block whose tick is not gated.
EscalationBlockAhead(c) ==
    \E i \in 1..Len(node[c].blocks) :
       /\ i >= mon[c].next
       /\ ~ Gated(c, mon[c].block_count + (i - mon[c].next) + 1)

\* The submit's transaction of call t is in a block whose tick is over or has
\* read get_pending, and the record, saved after that, is pending.
MissedInclusion(t) ==
    /\ sub[t].pc = "done"
    /\ ~ store[t].mined
    /\ unwrap(status(t)).hash = unwrap(sub[t].hash)
    /\ \E i \in 1..Len(node[sub[t].chain].blocks) :
          /\ i < mon[sub[t].chain].next
          /\ tx_has_been_included(node[sub[t].chain].blocks[i], unwrap(sub[t].hash))

\* C33: a record saved after the tick of the block that holds its transaction
\* is marked mined with the submit's hash once a block arrives whose tick is
\* not gated: that tick's re-broadcast gets "nonce too low". (Unless a call of
\* a tick fails.)
C33_SubmitInclusionRace ==
    /\ [][\A c \in Chains : \A r \in mon[c].requests \ mon'[c].requests :
            (/\ mon[c].pc = "loop"
             /\ mon'[c].pc # "dead"
             /\ r.hash \in Receipts(c))
            => /\ RequestUpdate(r.id, TRUE, r.hash) \in mon'[c].updates
               /\ node' = node]_vars
    /\ \A t \in Calls :
         (/\ MissedInclusion(t)
          /\ EscalationBlockAhead(sub[t].chain)
          /\ mon[sub[t].chain].pc # "dead")
         ~> (\/ /\ sub[t].pc = "done"
                /\ status(t) = Some([mined |-> TRUE, hash |-> unwrap(sub[t].hash)])
                /\ unwrap(sub[t].hash) \in Receipts(sub[t].chain)
             \/ mon[sub[t].chain].pc = "dead")

\* A tick holds the mined update for a request whose transaction is not in
\* the tick's block but in an earlier one: the fallback has pushed it.
C33_Witness ==
    \E t \in Calls :
       LET c == sub[t].chain
       IN  /\ MissedInclusion(t)
           /\ mon[c].pc = "loop"
           /\ RequestUpdate(t, TRUE, unwrap(sub[t].hash)) \in mon[c].updates
           /\ ~ tx_has_been_included(node[c].blocks[mon[c].next - 1], unwrap(sub[t].hash))

\* The running tick of chain c, for a block with a number up to n, has
\* re-broadcast the request of call t with bumped fees.
ReplacedInTickUpTo(t, c, n) ==
    /\ sub[t].pc = "done"
    /\ sub[t].chain = c
    /\ mon[c].pc = "loop"
    /\ mon[c].next - 1 <= n
    /\ \E u \in mon[c].updates : u.id = new_v4(t) /\ ~ u.mined

\* C34: no premature escalation: a tick whose block was produced before
\* every submit (one of the first BlocksBeforeSubmits blocks of its chain)
\* re-broadcasts no request; a request is only re-broadcast in the tick of a
\* later block.
C34_NoPrematureEscalation ==
    \A t \in Calls : \A c \in Chains : ~ ReplacedInTickUpTo(t, c, BlocksBeforeSubmits)

\* C35: an escalation tick of the in-memory escalator examines every
\* transaction tracked at its start exactly once: what it pops is always one
\* of these, never twice and never a replacement pushed in this tick; and when
\* the tick is over all of them were popped, and each is gone from the vector
\* or replaced by its one bump.
C35_EachExaminedOnce ==
    LET start == { TxHashOf(call_in.txs[k]) : k \in 1..Len(call_in.txs) }
        examined == call_out.examined
        final == { call_out.txs[k] : k \in 1..Len(call_out.txs) }
    IN  /\ \A i \in 1..Len(examined) : examined[i] \in start
        /\ \A i \in 1..Len(examined) : \A j \in 1..Len(examined) :
              i # j => examined[i] # examined[j]
        /\ call_out.pc = "done" =>
              /\ { examined[i] : i \in 1..Len(examined) } = start
              /\ \A tx \in final : \E k \in 1..Len(call_in.txs) :
                    LET old == call_in.txs[k]
                        new == replacement_gas_values(unwrap(old.max_fee_per_gas),
                                                      unwrap(old.max_priority_fee_per_gas),
                                                      call_in.estimate[1], call_in.estimate[2])
                    IN  tx = [old EXCEPT !.max_fee_per_gas = Some(new[1]),
                                         !.max_priority_fee_per_gas = Some(new[2])]

====
